---- MODULE Spec2Model ----
(***************************************************************************)
(* Model of src/main.py: the listing crawler's currency parser (money),    *)
(* field extractor (parse_generic), location classifier (detect_city,      *)
(* score_emplacement) and the main loop (run) with its filters, its        *)
(* per-source page counter, and the final deduplication and ranking.       *)
(*                                                                         *)
(* Conventions.                                                            *)
(*  - A Python str is a sequence of one-character strings.  Two characters *)
(*    have names: "nbsp" is U+00A0, "nnbsp" is U+202F, and "EUR" is the     *)
(*    euro sign.  In the field extractor a whole label word ("Prix",        *)
(*    "Loyers nets", ...) is one element of the sequence.                   *)
(*  - An optional value (Python None or a value) is <<>> or <<v>>.         *)
(*  - A float produced by money() is the exact decimal it denotes:         *)
(*    [num |-> n, scale |-> k] stands for n / 10^k, with no trailing zero   *)
(*    in the fraction.                                                     *)
(*  - A percentage with two decimals (a yield, min_yield_pct) is the       *)
(*    integer number of hundredths of a percent: 8.2 % is 820.             *)
(***************************************************************************)
EXTENDS Integers, Sequences, FiniteSets, TLC

VARIABLES
    \* money(text)
    money_text, money_out,
    \* detect_city / score_emplacement
    loc_raw, loc_cities, loc_fallback, loc_detected, loc_empl, loc_pc,
    \* parse_generic(html)
    pg_text, pg_soup_raises, pg_out, pg_raised,
    \* run()
    cfg, pc, si, pi, ci, qi, links, li, total_detail_pages, rows, df,
    fetched, last

money_vars == <<money_text, money_out>>
loc_vars == <<loc_raw, loc_cities, loc_fallback, loc_detected, loc_empl, loc_pc>>
pg_vars == <<pg_text, pg_soup_raises, pg_out, pg_raised>>
run_vars == <<cfg, pc, si, pi, ci, qi, links, li, total_detail_pages, rows, df,
              fetched, last>>
vars == <<money_vars, loc_vars, pg_vars, run_vars>>

-----------------------------------------------------------------------------
(* Optional values and small helpers *)

None == <<>>

Some(v) == <<v>>

Val(x) == x[1]

\* Python's `x or 0` on an optional number
OrZero(x) == IF x = None THEN 0 ELSE Val(x)

Max(S) == CHOOSE x \in S : \A y \in S : y <= x

Min(S) == CHOOSE x \in S : \A y \in S : x <= y

\* every sequence over S of length at most n
SeqsUpTo(S, n) == UNION {[1..k -> S] : k \in 0..n}

RECURSIVE Concat(_)
Concat(ss) == IF ss = <<>> THEN <<>> ELSE Head(ss) \o Concat(Tail(ss))

-----------------------------------------------------------------------------
(* Characters *)

Digits == {"0", "1", "2", "3", "4", "5", "6", "7", "8", "9"}

DigitVal(c) ==
    CASE c = "0" -> 0 [] c = "1" -> 1 [] c = "2" -> 2 [] c = "3" -> 3
      [] c = "4" -> 4 [] c = "5" -> 5 [] c = "6" -> 6 [] c = "7" -> 7
      [] c = "8" -> 8 [] c = "9" -> 9

\* what the regex class \s matches among the characters used here
Whitespace == {" ", "nbsp", "nnbsp"}

\* the class [\d\s] that starts group 1 of money's pattern
MoneyLead == Digits \cup Whitespace

\* the class [\d\s\.,]
MoneyClass == Digits \cup Whitespace \cup {".", ","}

-----------------------------------------------------------------------------
(* money(text), src/main.py lines 68-85 *)

\* str.replace(old, new) for a one-character old; new is a (possibly empty) str
RECURSIVE Replace(_, _, _)
Replace(s, old, new) ==
    IF s = <<>> THEN <<>>
    ELSE (IF Head(s) = old THEN new ELSE <<Head(s)>>) \o Replace(Tail(s), old, new)

\* length of the longest run of characters of class C that starts at index i
RECURSIVE RunLen(_, _, _)
RunLen(t, i, C) ==
    IF i > Len(t) \/ i < 1 THEN 0
    ELSE IF t[i] \in C THEN 1 + RunLen(t, i + 1, C) ELSE 0

\* The pattern ([\d\s][\d\s\.,]{2,})\s*EUR tried at start index s: the length of
\* group 1 of the match the backtracking engine returns (the longest), 0 if
\* there is none.  A group of length n covers t[s .. s+n-1].
MoneyMatchAt(t, s) ==
    IF s > Len(t) \/ t[s] \notin MoneyLead THEN 0
    ELSE LET k == RunLen(t, s + 1, MoneyClass)
             ends(n) == LET w == RunLen(t, s + n, Whitespace)
                        IN  s + n + w <= Len(t) /\ t[s + n + w] = "EUR"
             ok == {n \in 3..(k + 1) : ends(n)}
         IN  IF ok = {} THEN 0 ELSE Max(ok)

\* re.search: the match at the leftmost start index, None if no index matches
RECURSIVE MoneySearch(_, _)
MoneySearch(t, s) ==
    IF s > Len(t) THEN None
    ELSE LET n == MoneyMatchAt(t, s)
         IN  IF n > 0 THEN Some(SubSeq(t, s, s + n - 1)) ELSE MoneySearch(t, s + 1)

NormalizeKeepPeriods(g) ==
    Replace(Replace(Replace(g, " ", <<>>), "nnbsp", <<>>), ",", <<".">>)

\* lines 75-81: drop spaces and U+202F, drop periods, turn commas into periods
Normalize(g) ==
    Replace(Replace(Replace(Replace(g, " ", <<>>), "nnbsp", <<>>), ".", <<>>),
            ",", <<".">>)

RECURSIVE DigitsValue(_)
DigitsValue(s) ==
    IF s = <<>> THEN 0 ELSE DigitsValue(SubSeq(s, 1, Len(s) - 1)) * 10 + DigitVal(s[Len(s)])

RECURSIVE Canon(_, _)
Canon(n, k) == IF k > 0 /\ n % 10 = 0 THEN Canon(n \div 10, k - 1) ELSE [num |-> n, scale |-> k]

\* float(val) for a val made of digits and periods: [ok |-> FALSE] stands for
\* ValueError.  Python accepts "12", "12.", ".5", "1.5"; not "", "." or "1.2.3".
Float(val) ==
    LET dots == {i \in 1..Len(val) : val[i] = "."}
        bad == {i \in 1..Len(val) : val[i] \notin Digits \cup {"."}}
    IN  IF bad # {} \/ Cardinality(dots) > 1 \/ Len(val) - Cardinality(dots) = 0
        THEN [ok |-> FALSE]
        ELSE LET d == IF dots = {} THEN Len(val) + 1 ELSE CHOOSE i \in dots : TRUE
                 int == SubSeq(val, 1, d - 1)
                 frac == SubSeq(val, d + 1, Len(val))
             IN  [ok |-> TRUE, v |-> Canon(DigitsValue(int \o frac), Len(frac))]

money(text) ==
    IF text = <<>> THEN None
    ELSE LET t == Replace(text, "nbsp", <<" ">>)
             m == MoneySearch(t, 1)
         IN  IF m = None THEN None
             ELSE LET r == Float(Normalize(Val(m)))
                  IN  IF r.ok THEN Some(r.v) ELSE None

\* whether money(text) got as far as float() and float() raised (lines 82-85)
MoneyRaisedInside(text) ==
    /\ text # <<>>
    /\ LET m == MoneySearch(Replace(text, "nbsp", <<" ">>), 1)
       IN  m # None /\ ~Float(Normalize(Val(m))).ok

-----------------------------------------------------------------------------
(* detect_city and score_emplacement, src/main.py lines 136-199 *)

UpperCase == {"A", "B", "C", "D", "E", "F", "G", "H", "I", "J", "L", "M", "N",
              "O", "P", "R", "S", "T", "U", "V", "X"}

LowerCase == {"a", "b", "c", "d", "e", "f", "g", "h", "i", "j", "l", "m", "n",
              "o", "p", "r", "s", "t", "u", "v", "x"}

\* str.lower() and the folding of re.IGNORECASE, on one character
Lower(c) ==
    CASE c = "A" -> "a" [] c = "B" -> "b" [] c = "C" -> "c" [] c = "D" -> "d"
      [] c = "E" -> "e" [] c = "F" -> "f" [] c = "G" -> "g" [] c = "H" -> "h"
      [] c = "I" -> "i" [] c = "J" -> "j" [] c = "L" -> "l" [] c = "M" -> "m"
      [] c = "N" -> "n" [] c = "O" -> "o" [] c = "P" -> "p" [] c = "R" -> "r"
      [] c = "S" -> "s" [] c = "T" -> "t" [] c = "U" -> "u" [] c = "V" -> "v"
      [] c = "X" -> "x" [] OTHER -> c

LowerStr(s) == [i \in 1..Len(s) |-> Lower(s[i])]

\* the regex class \w
WordChars == UpperCase \cup LowerCase \cup Digits \cup {"_"}

IsWordAt(t, i) == i >= 1 /\ i <= Len(t) /\ t[i] \in WordChars

\* \b just before index p (p = Len(t) + 1 is the end of the text)
WordBoundary(t, p) == IsWordAt(t, p - 1) # IsWordAt(t, p)

\* the literal lit occurs in t at index i, ignoring case
LiteralAt(t, i, lit) ==
    /\ i >= 1 /\ i + Len(lit) - 1 <= Len(t)
    /\ \A j \in 1..Len(lit) : Lower(t[i + j - 1]) = Lower(lit[j])

SearchCityNoBoundary(raw, c) == \E i \in 1..(Len(raw) + 1) : LiteralAt(raw, i, c)

\* re.search(rf"\b{re.escape(c)}\b", raw, re.IGNORECASE) finds a match
SearchCity(raw, c) ==
    \E i \in 1..(Len(raw) + 1) :
        WordBoundary(raw, i) /\ LiteralAt(raw, i, c) /\ WordBoundary(raw, i + Len(c))

\* the for loop of lines 185-187 from index k on: the first city that matches
RECURSIVE FirstCity(_, _, _)
FirstCity(raw, cities, k) ==
    IF k > Len(cities) THEN None
    ELSE IF SearchCity(raw, cities[k]) THEN Some(cities[k])
    ELSE FirstCity(raw, cities, k + 1)

\* cities is an optional list: None is the `cities:` key left empty in the
\* configuration, on which the for statement raises TypeError (line 189)
\* and fallback is an optional str: `fallback or ""` (lines 188 and 190)
detect_city(raw, cities, fallback) ==
    LET fallback_or_empty == IF fallback = None THEN <<>> ELSE Val(fallback)
    IN  IF cities = None THEN fallback_or_empty
        ELSE LET m == FirstCity(raw, Val(cities), 1)
             IN  IF m # None THEN Val(m) ELSE fallback_or_empty

\* `ax.lower() in raw.lower()`
Contains(raw, ax) ==
    LET r == LowerStr(raw)
        a == LowerStr(ax)
    IN  \E i \in 1..(Len(r) - Len(a) + 1) : SubSeq(r, i, i + Len(a) - 1) = a

\* Cities and streets of the source table that are spelled without accents.
Paris == <<"P", "a", "r", "i", "s">>
Pau == <<"P", "a", "u">>
Lille == <<"L", "i", "l", "l", "e">>
AvenueMontaigne ==
    <<"A", "v", "e", "n", "u", "e", " ", "M", "o", "n", "t", "a", "i", "g", "n", "e">>
RueDeRivoli == <<"R", "u", "e", " ", "d", "e", " ", "R", "i", "v", "o", "l", "i">>
RueJoffre == <<"R", "u", "e", " ", "J", "o", "f", "f", "r", "e">>
RueNeuve == <<"R", "u", "e", " ", "N", "e", "u", "v", "e">>

\* AXES_PRIME.get(city, []), on the rows of the table for Paris (its two
\* unaccented streets), Pau and Lille (its unaccented street)
AXES_PRIME(city) ==
    IF city = Paris THEN <<RueDeRivoli, AvenueMontaigne>>
    ELSE IF city = Pau THEN <<RueJoffre>>
    ELSE IF city = Lille THEN <<RueNeuve>>
    ELSE <<>>

\* The alternatives of the pattern of line 197 that are spelled without
\* accents; each position is the set of characters it accepts ([- ] is a
\* class), and case is folded.
Lit(s) == [i \in 1..Len(s) |-> {s[i]}]

KeywordPatterns ==
    { Lit(<<"c", "e", "n", "t", "r", "e">>) \o <<{"-", " "}>> \o Lit(<<"v", "i", "l", "l", "e">>),
      Lit(<<"a", "n", "g", "l", "e">>),
      Lit(<<"f", "o", "r", "t", " ", "f", "l", "u", "x">>),
      Lit(<<"z", "o", "n", "e", " ", "p", "r", "i", "m", "e">>),
      Lit(<<"c", "o", "e", "u", "r", " ", "d", "e", " ", "v", "i", "l", "l", "e">>) }

SearchKeyword(raw) ==
    \E p \in KeywordPatterns : \E i \in 1..(Len(raw) - Len(p) + 1) :
        \A j \in 1..Len(p) : Lower(raw[i + j - 1]) \in p[j]

ScoreKeywordFirst(city, raw) ==
    IF SearchKeyword(raw) THEN "1bis"
    ELSE IF \E k \in 1..Len(AXES_PRIME(city)) :
                AXES_PRIME(city)[k] # <<>> /\ Contains(raw, AXES_PRIME(city)[k])
         THEN "No1"
    ELSE "2"

\* The tiers are "No1" (the source's "N°1"), "1bis", "2" and "" (unscored).
score_emplacement(city, raw) ==
    IF \E k \in 1..Len(AXES_PRIME(city)) :
           AXES_PRIME(city)[k] # <<>> /\ Contains(raw, AXES_PRIME(city)[k])
    THEN "No1"
    ELSE IF SearchKeyword(raw) THEN "1bis"
    ELSE "2"

\* line 265: score_emplacement(detected, raw, AXES_PRIME) if detected else ""
Emplacement(detected, raw) ==
    IF detected # <<>> THEN score_emplacement(detected, raw) ELSE ""

-----------------------------------------------------------------------------
(* parse_generic(html), src/main.py lines 87-131.  The text is the page's   *)
(* visible text after whitespace normalisation (line 91); a label word of   *)
(* the patterns is one element of it.                                       *)

\* Line 97's label is Prix(?: de vente)?|Prix net vendeur|Price, spliced into
\* rf"{label}\s*[:\-]?\s*.{{0,{span}}}EUR" without a group: the alternation
\* splits the whole pattern, so every alternative but the last matches the
\* label word alone, and only the last carries the window up to the euro sign.
PrixAlone == {"Prix"}
PrixWindowed == {"Price"}
\* line 98: Loyer annuel(?: HT)?|Revenu locatif|Loyers? nets?
LoyerAlone == {"Loyer annuel", "Revenu locatif"}
LoyerWindowed == {"Loyers nets"}
\* line 99: Charges(?: locatives)?
ChargesAlone == {}
ChargesWindowed == {"Charges"}
\* line 100: Taxe fonci(?:e|e-grave)re|TF; the texts spell it with a plain e
TaxeAlone == {"Taxe fonciere"}
TaxeWindowed == {"TF"}

SpanDefault == 80
SpanLoyer == 90
SpanCharges == 60
SpanTaxe == 60

\* the index after the longest \s*[:\-]?\s* that starts at index j
AfterPrefix(t, j) ==
    LET a == j + RunLen(t, j, Whitespace)
        b == IF a <= Len(t) /\ t[a] \in {":", "-"} THEN a + 1 ELSE a
    IN  b + RunLen(t, b, Whitespace)

\* label\s*[:\-]?\s*.{0,span}EUR with its label at index i: the index of the
\* euro sign that ends the match (the last one the greedy window reaches), or 0
WindowEnd(t, i, span) ==
    LET q == AfterPrefix(t, i + 1)
        euros == {e \in (i + 1)..Len(t) : t[e] = "EUR" /\ e <= q + span}
    IN  IF euros = {} THEN 0 ELSE Max(euros)

\* re.search of find_eur's pattern from index i on: the matched text m.group(0)
RECURSIVE FindEurMatch(_, _, _, _, _)
FindEurMatch(t, i, alone, windowed, span) ==
    IF i > Len(t) THEN None
    ELSE IF t[i] \in alone THEN Some(<<t[i]>>)
    ELSE IF t[i] \in windowed /\ WindowEnd(t, i, span) > 0
         THEN Some(SubSeq(t, i, WindowEnd(t, i, span)))
    ELSE FindEurMatch(t, i + 1, alone, windowed, span)

\* lines 93-95
find_eur(t, alone, windowed, span) ==
    LET m == FindEurMatch(t, 1, alone, windowed, span)
    IN  IF m = None THEN None ELSE money(Val(m))

\* float() raised inside the money() call of find_eur (and money() caught it)
FindEurRaisedInside(t, alone, windowed, span) ==
    LET m == FindEurMatch(t, 1, alone, windowed, span)
    IN  m # None /\ MoneyRaisedInside(Val(m))

\* Python truth of an optional float: None and 0.0 are false
Truthy(x) == x # None /\ Val(x).num # 0

\* line 102: Rendement\s*[:\-]?\s*(\d+(?:[.,]\d+)?)\s*% with its label at index
\* i: group 1, or None.  A shorter run of digits is followed by a digit, so
\* only the whole runs can be followed by \s*%.
RendementGroupAt(t, i) ==
    LET q == AfterPrefix(t, i + 1)
        d1 == RunLen(t, q, Digits)
        hasSep == q + d1 <= Len(t) /\ t[q + d1] \in {".", ","}
        d2 == IF hasSep THEN RunLen(t, q + d1 + 1, Digits) ELSE 0
        pct(k) == LET w == RunLen(t, k, Whitespace)
                  IN  k + w <= Len(t) /\ t[k + w] = "%"
    IN  IF t[i] # "Rendement" \/ d1 = 0 THEN None
        ELSE IF d2 > 0 /\ pct(q + d1 + 1 + d2) THEN Some(SubSeq(t, q, q + d1 + d2))
        ELSE IF pct(q + d1) THEN Some(SubSeq(t, q, q + d1 - 1))
        ELSE None

RECURSIVE RendementSearch(_, _)
RendementSearch(t, i) ==
    IF i > Len(t) THEN None
    ELSE IF RendementGroupAt(t, i) # None THEN RendementGroupAt(t, i)
    ELSE RendementSearch(t, i + 1)

\* lines 105 and 108: (labels)\s*[:\-]?\s*([class]{lo,80}) with a label at index
\* i: the index where the match ends, 0 if there is none.  The engine prefers
\* the longest first \s*, then the separator, then the longest second \s*,
\* then the longest class run; it gives characters back until lo fit.
SpanMax == 80

SpanEnd(t, i, class, lo) ==
    LET ws1 == RunLen(t, i + 1, Whitespace)
        cands == { c \in (0..ws1) \X {0, 1} \X (0..Len(t)) :
                    LET a == i + 1 + c[1]
                        b == a + c[2]
                    IN  /\ c[2] = 1 => (a <= Len(t) /\ t[a] \in {":", "-"})
                        /\ c[3] <= RunLen(t, b, Whitespace)
                        /\ RunLen(t, b + c[3], class) >= lo }
        better(x, y) == \/ x[1] > y[1]
                        \/ x[1] = y[1] /\ x[2] > y[2]
                        \/ x[1] = y[1] /\ x[2] = y[2] /\ x[3] >= y[3]
    IN  IF cands = {} THEN 0
        ELSE LET c == CHOOSE x \in cands : \A y \in cands : better(x, y)
                 start == i + 1 + c[1] + c[2] + c[3]
                 n == RunLen(t, start, class)
             IN  start + (IF n > SpanMax THEN SpanMax ELSE n) - 1

RECURSIVE SpanSearch(_, _, _, _, _)
SpanSearch(t, i, labels, class, lo) ==
    IF i > Len(t) THEN None
    ELSE IF t[i] \in labels /\ SpanEnd(t, i, class, lo) > 0
         THEN Some(SubSeq(t, i, SpanEnd(t, i, class, lo)))
    ELSE SpanSearch(t, i + 1, labels, class, lo)

\* the label words made of ASCII letters and spaces only
PlainLabels == {"Prix", "Price", "Loyer annuel", "Revenu locatif", "Loyers nets",
                "Charges", "Taxe fonciere", "TF", "Rendement", "Bail", "Locataire",
                "Pharmacie", "Banque"}

BailLabels == {"Bail"}
\* [A-Za-z0-9\/\-\.,\s]
BailClass == UpperCase \cup LowerCase \cup Digits \cup Whitespace \cup PlainLabels
                 \cup {"/", "-", ".", ","}
BailMin == 3

LocataireLabels == {"Locataire"}
\* [A-Za-z0-9\-\.,\s]
LocataireClass == BailClass \ {"/"}
LocataireMin == 2

\* line 111: the first activity word of the text
ActiviteWords == {"Pharmacie", "Banque"}

RECURSIVE ActiviteSearch(_, _)
ActiviteSearch(t, i) ==
    IF i > Len(t) THEN None
    ELSE IF t[i] \in ActiviteWords THEN Some(t[i])
    ELSE ActiviteSearch(t, i + 1)

\* lines 127-131
AllNone ==
    [prix |-> None, loyer |-> None, charges |-> None, taxe |-> None,
     rendement_annonce |-> None, bail |-> None, locataire |-> None,
     activite |-> None, raw |-> <<>>]

\* lines 89-131; soup_raises: BeautifulSoup or get_text raises on this page
parse_generic(text, soup_raises) ==
    IF soup_raises THEN AllNone
    ELSE LET labelled == find_eur(text, PrixAlone, PrixWindowed, SpanDefault)
             m_rend == RendementSearch(text, 1)
             f_rend == IF m_rend = None THEN [ok |-> TRUE, v |-> None]
                       ELSE LET r == Float(Replace(Val(m_rend), ",", <<".">>))
                            IN  IF r.ok THEN [ok |-> TRUE, v |-> Some(r.v)]
                                ELSE [ok |-> FALSE]
         IN  IF ~f_rend.ok THEN AllNone
             ELSE [prix |-> IF Truthy(labelled) THEN labelled ELSE money(text),
                   loyer |-> find_eur(text, LoyerAlone, LoyerWindowed, SpanLoyer),
                   charges |-> find_eur(text, ChargesAlone, ChargesWindowed, SpanCharges),
                   taxe |-> find_eur(text, TaxeAlone, TaxeWindowed, SpanTaxe),
                   rendement_annonce |-> f_rend.v,
                   bail |-> SpanSearch(text, 1, BailLabels, BailClass, BailMin),
                   locataire |-> SpanSearch(text, 1, LocataireLabels, LocataireClass,
                                            LocataireMin),
                   activite |-> ActiviteSearch(text, 1),
                   raw |-> text]

\* the monetary fields whose labelled extraction hit a ValueError inside money()
RaisedFields(text) ==
    {f \in {"prix", "loyer", "charges", "taxe"} :
        CASE f = "prix" -> FindEurRaisedInside(text, PrixAlone, PrixWindowed, SpanDefault)
          [] f = "loyer" -> FindEurRaisedInside(text, LoyerAlone, LoyerWindowed, SpanLoyer)
          [] f = "charges" ->
                FindEurRaisedInside(text, ChargesAlone, ChargesWindowed, SpanCharges)
          [] f = "taxe" -> FindEurRaisedInside(text, TaxeAlone, TaxeWindowed, SpanTaxe)}

-----------------------------------------------------------------------------
(* run(), src/main.py lines 204-297 *)

\* The source sets 50 and 200; the model runs the same loop with small caps so
\* that reaching a cap takes a few pages instead of fifty.
MAX_PAGES_PER_SOURCE == 2
MAX_LINKS_PER_SEARCH == 3

RECURSIVE Pow10(_)
Pow10(k) == IF k = 0 THEN 1 ELSE 10 * Pow10(k - 1)

\* a decimal [num, scale] as an integer number of 10^-k
AtScale(d, k) == d.num * Pow10(k - d.scale)

\* prix < bound and prix > bound for a float prix and an integer bound
DecLess(d, n) == d.num < n * Pow10(d.scale)
DecGreater(d, n) == d.num > n * Pow10(d.scale)

\* round(n / d, 0) for d > 0, ties to even as Python's round()
RoundHalfEven(n, d) ==
    LET q == n \div d
        r == n % d
    IN  IF 2 * r > d THEN q + 1
        ELSE IF 2 * r = d THEN q + (q % 2)
        ELSE q

\* the guard `prix and loyer and prix > 0` of lines 257-258
YieldDefined(prix, loyer) == Truthy(prix) /\ Truthy(loyer) /\ Val(prix).num > 0

\* round((x / prix) * 100, 2) in hundredths of a percent, x and prix at scale k
Percent(x, prix) == RoundHalfEven(x * 10000, prix)

CommonScale(f) ==
    Max({0} \cup {Val(f[k]).scale : k \in {j \in {"prix", "loyer", "charges", "taxe"} : f[j] # None}})

\* line 257
Brut(f) ==
    IF YieldDefined(f.prix, f.loyer)
    THEN LET k == CommonScale(f)
         IN  Some(Percent(AtScale(Val(f.loyer), k), AtScale(Val(f.prix), k)))
    ELSE None

\* `charges or 0`, at scale k
AmountOrZero(x, k) == IF x = None THEN 0 ELSE AtScale(Val(x), k)

\* line 258
Net(f) ==
    IF YieldDefined(f.prix, f.loyer)
    THEN LET k == CommonScale(f)
         IN  Some(Percent(AtScale(Val(f.loyer), k) - AmountOrZero(f.charges, k)
                              - AmountOrZero(f.taxe, k),
                          AtScale(Val(f.prix), k)))
    ELSE None

PriceAboveBandOnly(prix, c) == prix # None /\ DecGreater(Val(prix), c.pmax)

\* line 253: the page is skipped
PriceOutOfBand(prix, c) ==
    prix # None /\ (DecLess(Val(prix), c.pmin) \/ DecGreater(Val(prix), c.pmax))

YieldTooLowEither(brut, net, c) == OrZero(brut) < c.min_y \/ OrZero(net) < c.min_y

\* line 261: the page is skipped
YieldTooLow(brut, net, c) == OrZero(brut) < c.min_y /\ OrZero(net) < c.min_y

\* `cities or [""]` and `queries or [""]` (lines 226-227)
OrEmptyString(l) == IF l = None \/ Val(l) = <<>> THEN << <<>> >> ELSE Val(l)

\* discover_links (lines 41-63) on the hrefs of a result page, in page order: an
\* href is kept when it contains the source's domain and looks like a detail
\* page (line 52); the first MAX_LINKS_PER_SEARCH of them are deduplicated in
\* order (lines 56-59).
Urls == {"u1", "u2", "u3", "nav"}

\* the configured domains an href contains ("u2" and "u3" are reachable from
\* both sites); "nav" is a link of either site that is no detail page
UrlDomains(u) ==
    IF u = "u1" THEN {"cessionpme.com"} ELSE {"cessionpme.com", "bureauxlocaux.com"}

LooksLikeDetail(u) == u # "nav"

RECURSIVE DedupeInOrder(_, _)
DedupeInOrder(l, seen) ==
    IF l = <<>> THEN <<>>
    ELSE IF Head(l) \in seen THEN DedupeInOrder(Tail(l), seen)
    ELSE <<Head(l)>> \o DedupeInOrder(Tail(l), seen \cup {Head(l)})

discover_links(hrefs, base_domain) ==
    LET kept == SelectSeq(hrefs, LAMBDA u : base_domain \in UrlDomains(u) /\ LooksLikeDetail(u))
        first == SubSeq(kept, 1, IF Len(kept) > MAX_LINKS_PER_SEARCH
                                 THEN MAX_LINKS_PER_SEARCH ELSE Len(kept))
    IN  DedupeInOrder(first, {})

\* the row of lines 267-275
Row(src, link, f, detected, brut, net, empl) ==
    [Source |-> src.name, Domaine |-> src.domain, URL |-> link, Ville |-> detected,
     Prix |-> f.prix, Loyer |-> f.loyer, Charges |-> f.charges, Taxe |-> f.taxe,
     Brut |-> brut, Net |-> net, Bail |-> f.bail, Locataire |-> f.locataire,
     Activite |-> f.activite, Emplacement |-> empl]

RECURSIVE KeepLast(_)
KeepLast(rs) ==
    IF rs = <<>> THEN <<>>
    ELSE LET r == rs[Len(rs)]
             before == SubSeq(rs, 1, Len(rs) - 1)
         IN  KeepLast(SelectSeq(before, LAMBDA x : x.URL # r.URL)) \o <<r>>

\* drop_duplicates(subset=["URL"]) (line 281; pandas keeps the first)
RECURSIVE drop_duplicates(_)
drop_duplicates(rs) ==
    IF rs = <<>> THEN <<>>
    ELSE <<Head(rs)>> \o drop_duplicates(SelectSeq(Tail(rs), LAMBDA x : x.URL # Head(rs).URL))

\* lines 283-284: order = {"N°1": 0, "1bis": 1, "2": 2, "": 3}, .fillna(3)
Ord(empl) ==
    CASE empl = "No1" -> 0 [] empl = "1bis" -> 1 [] empl = "2" -> 2 [] OTHER -> 3

\* a descending column with NaN last: a sorts strictly before b
DescBefore(a, b) == a # None /\ (b = None \/ Val(a) > Val(b))
AscBefore(a, b) == a # None /\ (b = None \/ Val(a) < Val(b))

SortsBeforeAscendingNet(a, b) ==
    \/ Ord(a.Emplacement) < Ord(b.Emplacement)
    \/ /\ Ord(a.Emplacement) = Ord(b.Emplacement)
       /\ \/ AscBefore(a.Net, b.Net)
          \/ a.Net = b.Net /\ DescBefore(a.Brut, b.Brut)

\* the key of line 285: by ["__ord", net, brut], ascending [True, False, False]
SortsBefore(a, b) ==
    \/ Ord(a.Emplacement) < Ord(b.Emplacement)
    \/ /\ Ord(a.Emplacement) = Ord(b.Emplacement)
       /\ \/ DescBefore(a.Net, b.Net)
          \/ a.Net = b.Net /\ DescBefore(a.Brut, b.Brut)

\* sort_values is stable on several columns: r goes after every row that does
\* not sort strictly after it
RECURSIVE InsertSorted(_, _)
InsertSorted(sorted, r) ==
    IF sorted = <<>> THEN <<r>>
    ELSE IF SortsBefore(r, Head(sorted)) THEN <<r>> \o sorted
    ELSE <<Head(sorted)>> \o InsertSorted(Tail(sorted), r)

RECURSIVE sort_values(_)
sort_values(rs) ==
    IF rs = <<>> THEN <<>>
    ELSE InsertSorted(sort_values(SubSeq(rs, 1, Len(rs) - 1)), rs[Len(rs)])

\* lines 280-292
Output(rs) == IF rs # <<>> THEN sort_values(drop_duplicates(rs)) ELSE <<>>

\* the position after the current query / city / pattern / source is left
\* (the for statements of lines 222-227); a new source resets the counter
\* (line 224)
Position(s, p, c, q, total, n) ==
    [si |-> s, pi |-> p, ci |-> c, qi |-> q, total |-> total, fetched |-> n]

RECURSIVE Settle(_, _)
Settle(pos, c) ==
    IF pos.si > Len(c.sources) THEN pos
    ELSE IF pos.pi > Len(c.sources[pos.si].search_urls)
         THEN Settle(Position(pos.si + 1, 1, 1, 1, 0, 0), c)
    ELSE IF pos.ci > Len(OrEmptyString(c.cities))
         THEN Settle(Position(pos.si, pos.pi + 1, 1, 1, pos.total, pos.fetched), c)
    ELSE IF pos.qi > Len(OrEmptyString(c.queries))
         THEN Settle(Position(pos.si, pos.pi, pos.ci + 1, 1, pos.total, pos.fetched), c)
    ELSE pos

Here == Position(si, pi, ci, qi, total_detail_pages, fetched)

\* `continue` of the query loop, or the end of the link loop
NextQuery(total, n) == Settle(Position(si, pi, ci, qi + 1, total, n), cfg)

\* `break` of the query loop (line 230)
NextCity == Settle(Position(si, pi, ci + 1, 1, total_detail_pages, fetched), cfg)

GoTo(pos) ==
    /\ si' = pos.si /\ pi' = pos.pi /\ ci' = pos.ci /\ qi' = pos.qi
    /\ total_detail_pages' = pos.total
    /\ fetched' = pos.fetched
    /\ pc' = IF pos.si > Len(cfg.sources) THEN "finish" ELSE "search"

-----------------------------------------------------------------------------
(* Idle values: a specification of one function leaves the others' state alone *)

MoneyIdle == money_text = <<>> /\ money_out = [called |-> FALSE, ret |-> None]

LocIdle ==
    /\ loc_raw = <<>> /\ loc_cities = None /\ loc_fallback = None
    /\ loc_detected = <<>> /\ loc_empl = "" /\ loc_pc = "idle"

PgIdle ==
    /\ pg_text = <<>> /\ pg_soup_raises = FALSE /\ pg_out = None /\ pg_raised = {}

RunIdle ==
    /\ cfg = None /\ pc = "idle" /\ si = 0 /\ pi = 0 /\ ci = 0 /\ qi = 0
    /\ links = <<>> /\ li = 0 /\ total_detail_pages = 0 /\ rows = <<>>
    /\ df = <<>> /\ fetched = 0 /\ last = None

-----------------------------------------------------------------------------
(* money() applied to bounded texts *)

MaxMoneyLen == 4

MoneyAlphabet == {"0", "1", " ", "nbsp", ".", ",", "EUR", "x"}

\* what follows the enumerated prefix: nothing, " 20 EUR", "1<U+202F>0 EUR"
MoneySuffixes ==
    { <<>>, <<" ", "2", "0", " ", "EUR">>, <<"1", "nnbsp", "0", " ", "EUR">> }

\* "1 250 000 EUR", "1.250.000,50 EUR", "no amount here" (as "x x")
MoneyExamples ==
    { <<"1", " ", "2", "5", "0", " ", "0", "0", "0", " ", "EUR">>,
      <<"1", ".", "2", "5", "0", ".", "0", "0", "0", ",", "5", "0", " ", "EUR">>,
      <<"x", " ", "x">> }

MoneyInit ==
    /\ \/ \E p \in SeqsUpTo(MoneyAlphabet, MaxMoneyLen) : \E s \in MoneySuffixes :
              money_text = p \o s
       \/ money_text \in MoneyExamples
    /\ money_out = [called |-> FALSE, ret |-> None]
    /\ LocIdle /\ PgIdle /\ RunIdle

MoneyCall ==
    /\ ~money_out.called
    /\ money_out' = [called |-> TRUE, ret |-> money(money_text)]
    /\ UNCHANGED <<money_text, loc_vars, pg_vars, run_vars>>

MoneyNext == MoneyCall

SpecMoney == MoneyInit /\ [][MoneyNext]_vars

-----------------------------------------------------------------------------
(* detect_city() and the scoring of lines 264-265 applied to bounded texts *)

MaxFragments == 3

Space == <<" ">>

\* a city that has no row in AXES_PRIME
Colmar == <<"C", "o", "l", "m", "a", "r">>

\* the pieces a text is made of: "Paris", "PAU", "vre" (after "PAU": "PAUvre"),
\* " ", "-", "avenue montaigne", "Rue Neuve", "tri", "Angle", "centre", "ville"
Fragments ==
    { Paris, <<"P", "A", "U">>, <<"v", "r", "e">>, Space, <<"-">>,
      LowerStr(AvenueMontaigne), RueNeuve, <<"t", "r", "i">>,
      <<"A", "n", "g", "l", "e">>, <<"c", "e", "n", "t", "r", "e">>,
      <<"v", "i", "l", "l", "e">> }

CityLists == { None, Some(<<>>), Some(<<Paris, Pau, Lille>>), Some(<<Pau, Paris>>) }

Fallbacks == { None, Some(<<>>), Some(Paris), Some(Colmar) }

LocInit ==
    /\ \E fs \in SeqsUpTo(Fragments, MaxFragments) : loc_raw = Concat(fs)
    /\ loc_cities \in CityLists
    /\ loc_fallback \in Fallbacks
    /\ loc_detected = <<>> /\ loc_empl = "" /\ loc_pc = "call"
    /\ MoneyIdle /\ PgIdle /\ RunIdle

\* lines 264-265 on one text
LocCall ==
    /\ loc_pc = "call"
    /\ loc_detected' = detect_city(loc_raw, loc_cities, loc_fallback)
    /\ loc_empl' = Emplacement(loc_detected', loc_raw)
    /\ loc_pc' = "done"
    /\ UNCHANGED <<loc_raw, loc_cities, loc_fallback, money_vars, pg_vars, run_vars>>

LocNext == LocCall

SpecLoc == LocInit /\ [][LocNext]_vars

-----------------------------------------------------------------------------
(* Claims about money() *)

\* the runs [i..e] of t that start with a character of Lead, continue with 2 or
\* more digit/space/period/comma characters and end directly before a euro sign
RunsBeforeEuro(t, Lead) ==
    { r \in (1..Len(t)) \X (1..Len(t)) :
        /\ r[2] >= r[1] + 2 /\ r[2] < Len(t)
        /\ t[r[1]] \in Lead
        /\ \A j \in (r[1] + 1)..r[2] : t[j] \in MoneyClass
        /\ t[r[2] + 1] = "EUR" }

\* the number a run denotes once spaces (regular and non-breaking) and periods
\* are removed and the comma is read as the decimal point; None if it is none
RunValue(run) ==
    LET core == SelectSeq(run, LAMBDA c : c \notin Whitespace \cup {"."})
        commas == {i \in 1..Len(core) : core[i] = ","}
        digits == SelectSeq(core, LAMBDA c : c \in Digits)
    IN  IF Cardinality(commas) > 1 \/ digits = <<>> THEN None
        ELSE LET d == IF commas = {} THEN Len(core) + 1 ELSE CHOOSE i \in commas : TRUE
             IN  Some(Canon(DigitsValue(digits), Len(core) - d + (IF commas = {} THEN 1 ELSE 0)))

\* C8 as stated: the rightmost run that starts with a digit
MoneyAsClaimed(t) ==
    LET runs == RunsBeforeEuro(t, Digits)
    IN  IF runs = {} THEN None
        ELSE LET e == Max({r[2] : r \in runs})
                 i == Min({r[1] : r \in {q \in runs : q[2] = e}})
             IN  RunValue(SubSeq(t, i, e))

\* C8 as amended: the leftmost run, which may start with a digit or a space
MoneyAsAmended(t) ==
    LET runs == RunsBeforeEuro(t, Digits \cup Whitespace)
    IN  IF runs = {} THEN None
        ELSE LET i == Min({r[1] : r \in runs})
                 e == Max({r[2] : r \in {q \in runs : q[1] = i}})
             IN  RunValue(SubSeq(t, i, e))

\* C8 (original statement): money(text) is None when the text has no run of a
\* leading digit followed by 2 or more digit/space/period/comma characters
\* directly before a euro sign, and otherwise the normalized value of the
\* rightmost such run (None if it is not a number).
C8_Original == money_out.called => money_out.ret = MoneyAsClaimed(money_text)

\* C8 (amended): money(text) returns None or a non-negative number: None when
\* the text has no run of a leading digit or space followed by 2 or more
\* digit/space/period/comma characters directly before a euro sign, and
\* otherwise the normalized value of the leftmost such run, None if that is
\* not a number.
C8_MoneyLeftmostRun ==
    money_out.called =>
        /\ money_out.ret = MoneyAsAmended(money_text)
        /\ money_out.ret # None => Val(money_out.ret).num >= 0

\* a text with two amounts before euro signs, of which money() returned the first
C8_Witness ==
    /\ money_out.called /\ money_out.ret # None
    /\ Cardinality({r[2] : r \in RunsBeforeEuro(money_text, Digits)}) >= 2
    /\ money_out.ret # MoneyAsClaimed(money_text)

-----------------------------------------------------------------------------
(* Claims about detect_city() and the tier *)

\* c occurs in raw as a whole word, ignoring case
OccursWholeWord(raw, c) ==
    \E i \in 1..(Len(raw) - Len(c) + 1) :
        /\ LowerStr(SubSeq(raw, i, i + Len(c) - 1)) = LowerStr(c)
        /\ i > 1 => raw[i - 1] \notin WordChars
        /\ i + Len(c) <= Len(raw) => raw[i + Len(c)] \notin WordChars

ListedCities == IF loc_cities = None THEN <<>> ELSE Val(loc_cities)

Occurring == {k \in 1..Len(ListedCities) : OccursWholeWord(loc_raw, ListedCities[k])}

\* C9: detect_city returns the first city of the list, in list order, that
\* occurs in raw as a whole word ignoring case; when none occurs it returns the
\* fallback, or the empty string when the fallback is empty or missing.
C9_DetectCityFirstListed ==
    loc_pc = "done" =>
        IF Occurring # {} THEN loc_detected = ListedCities[Min(Occurring)]
        ELSE loc_detected = (IF loc_fallback = None THEN <<>> ELSE Val(loc_fallback))

\* both cities of the list <<Pau, Paris>> occur, Paris first in the text, and
\* the first of the list is returned
C9_Witness ==
    /\ loc_pc = "done" /\ loc_cities = Some(<<Pau, Paris>>)
    /\ Occurring = {1, 2}
    /\ SubSeq(loc_raw, 1, 5) = Paris
    /\ loc_detected = Pau

\* the text contains the street (or keyword) s, ignoring case
TextHas(raw, s) ==
    \E i \in 1..(Len(raw) - Len(s) + 1) :
        \A j \in 1..Len(s) : Lower(raw[i + j - 1]) = Lower(s[j])

GenericKeywords ==
    { <<"c", "e", "n", "t", "r", "e", "-", "v", "i", "l", "l", "e">>,
      <<"c", "e", "n", "t", "r", "e", " ", "v", "i", "l", "l", "e">>,
      <<"a", "n", "g", "l", "e">>,
      <<"f", "o", "r", "t", " ", "f", "l", "u", "x">>,
      <<"z", "o", "n", "e", " ", "p", "r", "i", "m", "e">>,
      <<"c", "o", "e", "u", "r", " ", "d", "e", " ", "v", "i", "l", "l", "e">> }

HasPrimeAxis(city, raw) ==
    \E k \in 1..Len(AXES_PRIME(city)) : TextHas(raw, AXES_PRIME(city)[k])

HasGenericKeyword(raw) == \E s \in GenericKeywords : TextHas(raw, s)

TierAsClaimed(city, raw) ==
    IF city = <<>> THEN ""
    ELSE IF HasPrimeAxis(city, raw) THEN "No1"
    ELSE IF HasGenericKeyword(raw) THEN "1bis"
    ELSE "2"

\* C6: the tier is "" when the detected city is empty; otherwise "No1" when the
\* text contains, ignoring case, a street of that city's prime-axis list;
\* otherwise "1bis" when it contains a generic keyword; otherwise "2".
C6_TierPrecedence ==
    loc_pc = "done" => loc_empl = TierAsClaimed(loc_detected, loc_raw)

\* Paris detected, its street and a generic keyword both in the text: "No1"
C6_Witness ==
    /\ loc_pc = "done" /\ loc_detected = Paris
    /\ TextHas(loc_raw, AvenueMontaigne) /\ HasGenericKeyword(loc_raw)
    /\ loc_empl = "No1"

-----------------------------------------------------------------------------
(* parse_generic() applied to bounded page texts *)

MaxSegments == 3

Amount100 == <<":", " ", "1", "0", "0", " ", "EUR", " ">>
Amount90 == <<":", " ", "9", "0", " ", "EUR", " ">>
Amount50 == <<" ", "5", "0", " ", "EUR", " ">>
Amount30 == <<" ", "-", " ", "3", "0", ",", "5", " ", "EUR", " ">>
\* "1,2,3 EUR": normalises to "1.2.3", on which float() raises
AmountBad == <<":", " ", "1", ",", "2", ",", "3", " ", "EUR", " ">>
AmountZero == <<":", " ", "0", ",", "0", "0", " ", "EUR", " ">>

PgSegments ==
    { <<"Price">> \o Amount100, <<"Price">> \o AmountBad, <<"Price">> \o AmountZero,
      <<"Prix">> \o Amount100,
      <<"Loyers nets">> \o Amount90, <<"Loyers nets">> \o AmountBad,
      <<"Loyer annuel">> \o Amount90,
      <<"Charges">> \o Amount50, <<"Charges">> \o AmountBad,
      <<"TF">> \o Amount30, <<"TF">> \o AmountBad,
      <<"Taxe fonciere">> \o Amount30,
      <<"Rendement", ":", " ", "8", ",", "5", " ", "%", " ">>,
      <<"Bail", ":", " ", "3", "/", "6", "/", "9", " ">>,
      <<"Locataire", " ", "-", " ", "X", " ">>,
      <<"Pharmacie", " ">> }

PgInit ==
    /\ \E segs \in SeqsUpTo(PgSegments, MaxSegments) : pg_text = Concat(segs)
    /\ pg_soup_raises \in BOOLEAN
    /\ pg_out = None /\ pg_raised = {}
    /\ MoneyIdle /\ LocIdle /\ RunIdle

PgCall ==
    /\ pg_out = None
    /\ pg_out' = Some(parse_generic(pg_text, pg_soup_raises))
    /\ pg_raised' = IF pg_soup_raises THEN {} ELSE RaisedFields(pg_text)
    /\ UNCHANGED <<pg_text, pg_soup_raises, money_vars, loc_vars, run_vars>>

PgNext == PgCall

SpecParse == PgInit /\ [][PgNext]_vars

-----------------------------------------------------------------------------
(* Claim about parse_generic() *)

\* C7: if extracting one field raises an internal exception, only that field
\* becomes None (here: every field whose extraction raised is None in the
\* result); if the page cannot be parsed at all, every field is None and the
\* raw text is empty; parse_generic always returns a record.
C7_FieldFailureIsolated ==
    pg_out # None =>
        /\ \A f \in pg_raised : Val(pg_out)[f] = None
        /\ pg_soup_raises => Val(pg_out) = AllNone

-----------------------------------------------------------------------------
(* run() on a bounded configuration and a bounded web *)

Sources ==
    << [name |-> "CessionPME", domain |-> "cessionpme.com", search_urls |-> <<"search1">>],
       [name |-> "BureauxLocaux", domain |-> "bureauxlocaux.com",
        search_urls |-> <<"search2">>] >>

\* min_yield_pct 8.0 (the default) or 0; the price band of line 252's comment
Configs ==
    { [min_y |-> m, pmin |-> 1000000, pmax |-> 3000000, cities |-> cs,
       queries |-> None, sources |-> Sources] :
        m \in {0, 800}, cs \in {None, Some(<<Paris, Pau>>)} }

\* what the hrefs of a result page can be
HrefLists == { <<"u1", "u2", "u3">>, <<"u3", "nav", "u3", "u2", "u1">> }

Labelled(label, n) == <<label, ":", " ">> \o n \o <<" ", "EUR", " ">>

N3000000 == <<"3", " ", "0", "0", "0", " ", "0", "0", "0">>
N1000000 == <<"1", " ", "0", "0", "0", " ", "0", "0", "0">>
N500000 == <<"5", "0", "0", " ", "0", "0", "0">>
N210000 == <<"2", "1", "0", " ", "0", "0", "0">>
N90000 == <<"9", "0", " ", "0", "0", "0">>
N80000 == <<"8", "0", " ", "0", "0", "0">>
N79900 == <<"7", "9", " ", "9", "0", "0">>
N10000 == <<"1", "0", " ", "0", "0", "0">>
N5000 == <<"5", " ", "0", "0", "0">>
N3000 == <<"3", " ", "0", "0", "0">>
NZero == <<"0", ",", "0", "0">>

Page(text) == [text |-> text, soup_raises |-> FALSE]

\* price 1 000 000, rent 90 000, charges 5 000, tax 3 000, a prime street of Paris
PageA ==
    Page(Labelled("Price", N1000000) \o Labelled("Loyers nets", N90000)
         \o Labelled("Charges", N5000) \o Labelled("TF", N3000)
         \o Paris \o Space \o AvenueMontaigne)
\* gross and net exactly 8.00 %, a generic keyword
PageB ==
    Page(Labelled("Price", N1000000) \o Labelled("Loyers nets", N80000)
         \o <<"a", "n", "g", "l", "e">>)
\* gross and net 7.99 %
PageC == Page(Labelled("Price", N1000000) \o Labelled("Loyers nets", N79900))
\* price below the band
PageD == Page(Labelled("Price", N500000) \o Labelled("Loyers nets", N90000))
\* a rent of 0,00
PageF ==
    Page(Labelled("Price", N1000000) \o Labelled("Loyers nets", NZero) \o <<"Pharmacie">>)
\* gross 9.00 %, net 8.00 %
PageG ==
    Page(Labelled("Price", N1000000) \o Labelled("Loyers nets", N90000)
         \o Labelled("Charges", N10000) \o <<"Bail", ":", " ", "3", "/", "6", "/", "9">>)
\* price at the top of the band, 7.00 %
PageH == Page(Labelled("Price", N3000000) \o Labelled("Loyers nets", N210000))
\* markup on which the parser raises: no field at all
PageGarbage == [text |-> <<>>, soup_raises |-> TRUE]

\* what a fetch of a detail URL can return
PagesAt(u) ==
    CASE u = "u1" -> {PageA, PageC, PageG}
      [] u = "u2" -> {PageB, PageD, PageF}
      [] OTHER -> {PageH, PageGarbage}

AllPages == PagesAt("u1") \cup PagesAt("u2") \cup PagesAt("u3")

\* line 249 on each page of the web, computed once
Parsed == [page \in AllPages |-> parse_generic(page.text, page.soup_raises)]

RunInit ==
    /\ cfg \in Configs
    /\ pc = "search" /\ si = 1 /\ pi = 1 /\ ci = 1 /\ qi = 1
    /\ links = <<>> /\ li = 0
    /\ total_detail_pages = 0 /\ rows = <<>> /\ df = <<>>
    /\ fetched = 0 /\ last = None
    /\ MoneyIdle /\ LocIdle /\ PgIdle

Src == cfg.sources[si]

\* lines 228-230
SearchLimitReached ==
    /\ pc = "search"
    /\ total_detail_pages >= MAX_PAGES_PER_SOURCE
    /\ GoTo(NextCity)
    /\ UNCHANGED <<links, li, rows, df, last, money_vars, loc_vars, pg_vars, cfg>>

\* lines 232-235: the fetch of the result page fails
SearchFetchFails ==
    /\ pc = "search"
    /\ total_detail_pages < MAX_PAGES_PER_SOURCE
    /\ GoTo(NextQuery(total_detail_pages, fetched))
    /\ UNCHANGED <<links, li, rows, df, last, money_vars, loc_vars, pg_vars, cfg>>

\* lines 232-238: the result page is fetched and its links are discovered
SearchFetched ==
    /\ pc = "search"
    /\ total_detail_pages < MAX_PAGES_PER_SOURCE
    /\ \E hrefs \in HrefLists : links' = discover_links(hrefs, Src.domain)
    /\ li' = 1
    /\ pc' = "links"
    /\ UNCHANGED <<si, pi, ci, qi, total_detail_pages, fetched, rows, df, last,
                   money_vars, loc_vars, pg_vars, cfg>>

\* the link loop is over (line 240)
LinksDone ==
    /\ pc = "links" /\ li > Len(links)
    /\ GoTo(NextQuery(total_detail_pages, fetched))
    /\ UNCHANGED <<links, li, rows, df, last, money_vars, loc_vars, pg_vars, cfg>>

\* lines 241-243
LinkLimitReached ==
    /\ pc = "links" /\ li <= Len(links)
    /\ total_detail_pages >= MAX_PAGES_PER_SOURCE
    /\ GoTo(NextQuery(total_detail_pages, fetched))
    /\ UNCHANGED <<links, li, rows, df, last, money_vars, loc_vars, pg_vars, cfg>>

\* lines 245-247: the fetch of the detail page fails
DetailFetchFails ==
    /\ pc = "links" /\ li <= Len(links)
    /\ total_detail_pages < MAX_PAGES_PER_SOURCE
    /\ li' = li + 1
    /\ UNCHANGED <<pc, si, pi, ci, qi, links, total_detail_pages, fetched, rows, df,
                   last, money_vars, loc_vars, pg_vars, cfg>>

\* lines 249-277 on a fetched detail page
DetailPage ==
    /\ pc = "links" /\ li <= Len(links)
    /\ total_detail_pages < MAX_PAGES_PER_SOURCE
    /\ \E page \in PagesAt(links[li]) :
       \E f \in {Parsed[page]} :
       \E brut \in {Brut(f)} : \E net \in {Net(f)} :
       \E detected \in {detect_city(f.raw, cfg.cities, Some(OrEmptyString(cfg.cities)[ci]))} :
       \E empl \in {Emplacement(detected, f.raw)} :
       \E accepted \in {~PriceOutOfBand(f.prix, cfg) /\ ~YieldTooLow(brut, net, cfg)} :
           /\ last' = Some([f |-> f, brut |-> brut, net |-> net, accepted |-> accepted])
           /\ fetched' = fetched + 1
           /\ IF accepted
              THEN /\ rows' = Append(rows, Row(Src, links[li], f, detected, brut, net, empl))
                   /\ total_detail_pages' = total_detail_pages + 1
              ELSE UNCHANGED <<rows, total_detail_pages>>
    /\ li' = li + 1
    /\ UNCHANGED <<pc, si, pi, ci, qi, links, df, money_vars, loc_vars, pg_vars, cfg>>

\* lines 280-292
Finish ==
    /\ pc = "finish"
    /\ df' = Output(rows)
    /\ pc' = "done"
    /\ UNCHANGED <<si, pi, ci, qi, links, li, total_detail_pages, fetched, rows, last,
                   money_vars, loc_vars, pg_vars, cfg>>

Next ==
    \/ SearchLimitReached
    \/ SearchFetchFails
    \/ SearchFetched
    \/ LinksDone
    \/ LinkLimitReached
    \/ DetailFetchFails
    \/ DetailPage
    \/ Finish

Init == RunInit

Spec == Init /\ [][Next]_vars

-----------------------------------------------------------------------------
(* Claims about run() *)

\* price_min <= prix <= price_max for a decimal prix
InBand(prix) ==
    LET unit == Pow10(Val(prix).scale)
    IN  cfg.pmin * unit <= Val(prix).num /\ Val(prix).num <= cfg.pmax * unit

Emitted == {rows[k] : k \in 1..Len(rows)} \cup {df[k] : k \in 1..Len(df)}

\* C1: no emitted row has a present price outside [price_min, price_max], and
\* no emitted row has both its gross and its net yield (absent counted as 0)
\* below min_yield.
C1_NoDisqualifiedRow ==
    \A r \in Emitted :
        /\ r.Prix # None => InBand(r.Prix)
        /\ ~(OrZero(r.Brut) < cfg.min_y /\ OrZero(r.Net) < cfg.min_y)

\* the output is written, it has rows, and the last page fetched was rejected
C1_Witness ==
    /\ pc = "done" /\ df # <<>>
    /\ last # None /\ ~Val(last).accepted

\* C2: the filter accepts exactly the candidates whose price is absent or
\* inside [price_min, price_max], bounds included, and of which at least one of
\* gross and net yield (absent counted as 0) is >= min_yield; an accepted
\* candidate becomes the last row.
C2_FilterAccepts ==
    last # None =>
        LET l == Val(last)
            price_ok == l.f.prix = None \/ InBand(l.f.prix)
            yield_ok == OrZero(l.brut) >= cfg.min_y \/ OrZero(l.net) >= cfg.min_y
        IN  /\ l.accepted <=> (price_ok /\ yield_ok)
            /\ ~YieldTooLow(Some(cfg.min_y), None, cfg)
            /\ cfg.min_y > 0 => YieldTooLow(Some(cfg.min_y - 1), None, cfg)
            /\ l.accepted => /\ rows # <<>>
                             /\ rows[Len(rows)].Prix = l.f.prix
                             /\ rows[Len(rows)].Brut = l.brut

\* a page whose yields are exactly min_yield was accepted
C2_Witness ==
    /\ last # None /\ Val(last).accepted
    /\ cfg.min_y = 800
    /\ Val(last).brut = Some(cfg.min_y) /\ Val(last).net = Some(cfg.min_y)

ClaimedDefined(f) == f.prix # None /\ Val(f.prix).num > 0 /\ f.loyer # None

\* an amount as a number of 10^-k, an absent one as `absent`
Units(x, k, absent) == IF x = None THEN absent ELSE Val(x).num * Pow10(k - Val(x).scale)

ClaimedGross(f) ==
    IF ClaimedDefined(f)
    THEN LET k == CommonScale(f)
         IN  Some(RoundHalfEven(Units(f.loyer, k, 0) * 10000, Units(f.prix, k, 1)))
    ELSE None

ClaimedNet(f) ==
    IF ClaimedDefined(f)
    THEN LET k == CommonScale(f)
         IN  Some(RoundHalfEven((Units(f.loyer, k, 0) - Units(f.charges, k, 0)
                                   - Units(f.taxe, k, 0)) * 10000,
                                Units(f.prix, k, 1)))
    ELSE None

\* C3: gross and net yield are absent unless price > 0 and rent is present;
\* when price > 0 and rent is present (a present rent of 0 included),
\* gross = rent / price * 100 and net = (rent - charges_or_0 - tax_or_0) / price
\* * 100, each rounded to 2 decimals.
C3_YieldsAsClaimed ==
    last # None =>
        /\ Val(last).brut = ClaimedGross(Val(last).f)
        /\ Val(last).net = ClaimedNet(Val(last).f)

FirstIndex(u) == Min({k \in 1..Len(rows) : rows[k].URL = u})

RowUrls == {rows[k].URL : k \in 1..Len(rows)}

\* C4: the final output holds at most one record per URL, and the record kept
\* for a URL is the first one assembled for it, with all its field values.
C4_FirstPerUrlKept ==
    pc = "done" =>
        /\ \A i, j \in 1..Len(df) : df[i].URL = df[j].URL => i = j
        /\ \A u \in RowUrls : \E i \in 1..Len(df) : df[i] = rows[FirstIndex(u)]
        /\ \A i \in 1..Len(df) : df[i].URL \in RowUrls

\* a URL was assembled twice into different records
C4_Witness ==
    /\ pc = "done"
    /\ \E i, j \in 1..Len(rows) :
           /\ i < j /\ rows[i].URL = rows[j].URL
           /\ rows[i].Net # rows[j].Net /\ rows[i].Source # rows[j].Source

TierRank(e) == IF e = "No1" THEN 0 ELSE IF e = "1bis" THEN 1 ELSE IF e = "2" THEN 2 ELSE 3

\* a >= b on optional yields, a missing yield being the lowest
AtLeast(a, b) == b = None \/ (a # None /\ Val(a) >= Val(b))

\* C5: the final output is a permutation of the deduplicated accepted records
\* in which, for adjacent a before b, tier rank of a <= tier rank of b; at equal
\* rank, net of a >= net of b; at equal net too, gross of a >= gross of b; and a
\* record with a missing yield comes after every record of its tier that has it.
C5_Ranked ==
    pc = "done" =>
        /\ Len(df) = Cardinality(RowUrls)
        /\ \A u \in RowUrls : \E i \in 1..Len(df) : df[i] = rows[FirstIndex(u)]
        /\ \A i \in 1..(Len(df) - 1) :
             LET a == df[i]
                 b == df[i + 1]
             IN  /\ TierRank(a.Emplacement) <= TierRank(b.Emplacement)
                 /\ TierRank(a.Emplacement) = TierRank(b.Emplacement) =>
                        /\ AtLeast(a.Net, b.Net)
                        /\ a.Net = b.Net => AtLeast(a.Brut, b.Brut)
        /\ \A i, j \in 1..Len(df) :
             (i < j /\ TierRank(df[i].Emplacement) = TierRank(df[j].Emplacement)) =>
                 /\ ~(df[i].Net = None /\ df[j].Net # None)
                 /\ ~(df[i].Brut = None /\ df[j].Brut # None)

\* the ranking moved rows: three or more records, two adjacent ones of one tier
\* with equal net and different gross, and one without yields behind one with
C5_Witness ==
    /\ pc = "done" /\ Len(df) >= 3
    /\ df # drop_duplicates(rows)
    /\ \E i \in 1..(Len(df) - 1) :
           /\ df[i].Emplacement = df[i + 1].Emplacement
           /\ df[i].Net = df[i + 1].Net /\ df[i].Net # None
           /\ Val(df[i].Brut) > Val(df[i + 1].Brut)
    /\ \E i \in 1..(Len(df) - 1) :
           /\ df[i].Emplacement = df[i + 1].Emplacement
           /\ df[i].Net # None /\ df[i + 1].Net = None

\* C10: for every source, whatever the outcome of the filters, the number of
\* detail pages fetched and processed never exceeds MAX_PAGES_PER_SOURCE, and
\* the per-source counter is 0 when a source starts.
C10_FetchedWithinCap ==
    /\ fetched <= MAX_PAGES_PER_SOURCE
    /\ (pc = "search" /\ pi = 1 /\ ci = 1 /\ qi = 1) => total_detail_pages = 0

====
